---- MODULE Spec2Model ----
(***************************************************************************)
(* Tarificateur Sectorem (src/main.py): a FastAPI service that looks a     *)
(* product reference up on one of two supplier sites (luxior, ami3f) and   *)
(* returns a ProduitResponse.                                              *)
(*                                                                         *)
(* A Python str is a tuple of one-character strings (the euro sign is the  *)
(* one-character string "€").  An Optional[T] is a set: {} is None and {v} *)
(* is the value v.  A float read from a decimal literal is the exact       *)
(* decimal [neg, mant, scale] = (-1)^neg * mant / 10^scale, normalised.    *)
(***************************************************************************)
EXTENDS Integers, Sequences, FiniteSets, TLC

VARIABLES clients, catalog, pc, req, called, wire, outcome, ret, resp

vars == <<clients, catalog, pc, req, called, wire, outcome, ret, resp>>

(***************************************************************************)
(* Bounds of the model.                                                    *)
(***************************************************************************)
\* longest raw price text enumerated exhaustively
MaxLen == 3
\* most top-level elements of an enumerated result page
MaxElems == 2

(***************************************************************************)
(* Program constants.                                                      *)
(***************************************************************************)
HTTP_200 == 200
HTTP_400 == 400

None == {}
Some(v) == {v}
Get(o) == CHOOSE v \in o : TRUE

(***************************************************************************)
(* str methods.                                                            *)
(***************************************************************************)
Whitespace == {" ", "\t", "\n"}
Digits == {"0", "1", "2", "3", "4", "5", "6", "7", "8", "9"}

UpperCase == <<"A", "B", "C", "D", "E", "F", "G", "H", "I", "J", "K", "L", "M",
               "N", "O", "P", "Q", "R", "S", "T", "U", "V", "W", "X", "Y", "Z">>
LowerCase == <<"a", "b", "c", "d", "e", "f", "g", "h", "i", "j", "k", "l", "m",
               "n", "o", "p", "q", "r", "s", "t", "u", "v", "w", "x", "y", "z">>

SetMin(S) == CHOOSE x \in S : \A y \in S : x <= y
SetMax(S) == CHOOSE x \in S : \A y \in S : y <= x

\* str.strip(): drop leading and trailing whitespace
strip(s) ==
    LET keep == {i \in 1..Len(s) : s[i] \notin Whitespace}
    IN  IF keep = {} THEN <<>> ELSE SubSeq(s, SetMin(keep), SetMax(keep))

lower_char(c) ==
    IF \E i \in 1..Len(UpperCase) : UpperCase[i] = c
    THEN LowerCase[CHOOSE i \in 1..Len(UpperCase) : UpperCase[i] = c]
    ELSE c

\* str.lower()
lower(s) == [i \in 1..Len(s) |-> lower_char(s[i])]

\* str.replace(',', '.')
replace_comma(s) == [i \in 1..Len(s) |-> IF s[i] = "," THEN "." ELSE s[i]]

\* re.sub(r'[^\d,.]', '', s): keep only digits, comma and period
re_sub_price(s) == SelectSeq(s, LAMBDA c : c \in Digits \cup {",", "."})

DigitVal(c) ==
    CASE c = "0" -> 0 [] c = "1" -> 1 [] c = "2" -> 2 [] c = "3" -> 3
      [] c = "4" -> 4 [] c = "5" -> 5 [] c = "6" -> 6 [] c = "7" -> 7
      [] c = "8" -> 8 [] c = "9" -> 9

RECURSIVE DigitsToNat(_)
DigitsToNat(ds) ==
    IF ds = <<>> THEN 0
    ELSE 10 * DigitsToNat(SubSeq(ds, 1, Len(ds) - 1)) + DigitVal(ds[Len(ds)])

RECURSIVE Normalise(_)
Normalise(v) ==
    IF v.scale > 0 /\ v.mant % 10 = 0
    THEN Normalise([v EXCEPT !.mant = v.mant \div 10, !.scale = v.scale - 1])
    ELSE v

\* float(s) for s made of an optional sign, digits and periods: the value,
\* or None where Python raises ValueError (no digit, more than one period,
\* any other character).
float(s) ==
    LET signed == s # <<>> /\ s[1] \in {"-", "+"}
        body   == IF signed THEN Tail(s) ELSE s
        dots   == {i \in 1..Len(body) : body[i] = "."}
        ds     == SelectSeq(body, LAMBDA c : c \in Digits)
    IN  IF /\ \A i \in 1..Len(body) : body[i] \in Digits \cup {"."}
           /\ Cardinality(dots) <= 1
           /\ ds # <<>>
        THEN Some(Normalise(
                 [neg   |-> signed /\ s[1] = "-" /\ DigitsToNat(ds) # 0,
                  mant  |-> DigitsToNat(ds),
                  scale |-> IF dots = {} THEN 0
                            ELSE Len(body) - SetMin(dots)]))
        ELSE None

\* a variant of the price step that parses the cleaned text without
\* swapping the comma for a period
normalize_price_no_swap(prix_text) ==
    IF prix_text # None /\ Get(prix_text) # <<>>
    THEN float(re_sub_price(Get(prix_text)))
    ELSE None

\* main.py 96-103 / 170-176: prix stays None unless prix_text is non-empty
\* and the cleaned text parses
normalize_price(prix_text) ==
    IF prix_text # None /\ Get(prix_text) # <<>>
    THEN float(replace_comma(re_sub_price(Get(prix_text))))
    ELSE None

(***************************************************************************)
(* str(int) and f-string concatenation.                                    *)
(***************************************************************************)
DigitChar(d) == CHOOSE c \in Digits : DigitVal(c) = d

RECURSIVE str_int(_)
str_int(n) ==
    IF n < 10 THEN <<DigitChar(n)>>
    ELSE str_int(n \div 10) \o <<DigitChar(n % 10)>>

\* sub in s (substring test)
Contains(s, sub) ==
    \E i \in 1..(Len(s) - Len(sub) + 1) : SubSeq(s, i, i + Len(sub) - 1) = sub

(***************************************************************************)
(* Literals of the source.                                                 *)
(***************************************************************************)
LUXIOR == <<"l", "u", "x", "i", "o", "r">>
AMI3F == <<"a", "m", "i", "3", "f">>
NA == <<"N", "/", "A">>
A_VERIFIER == <<"À", " ", "v", "é", "r", "i", "f", "i", "e", "r">>
ERREUR_HTTP == <<"E", "r", "r", "e", "u", "r", " ", "H", "T", "T", "P", " ">>
PRODUIT_NON_TROUVE == <<"P", "r", "o", "d", "u", "i", "t", " ", "n", "o", "n", " ", "t", "r", "o", "u", "v", "é">>
TIMEOUT_LUXIOR == <<"T", "i", "m", "e", "o", "u", "t", " ", "-", " ", "L", "e", " ", "s", "e", "r", "v", "e", "u", "r", " ", "L", "u", "x", "i", "o", "r", " ", "n", "e", " ", "r", "é", "p", "o", "n", "d", " ", "p", "a", "s">>
TIMEOUT_AMI3F == <<"T", "i", "m", "e", "o", "u", "t", " ", "-", " ", "L", "e", " ", "s", "e", "r", "v", "e", "u", "r", " ", "A", "M", "I", " ", "3", "F", " ", "n", "e", " ", "r", "é", "p", "o", "n", "d", " ", "p", "a", "s">>
ERREUR_PREFIX == <<"E", "r", "r", "e", "u", "r", ":", " ">>
REFERENCE_OBLIGATOIRE == <<"L", "a", " ", "r", "é", "f", "é", "r", "e", "n", "c", "e", " ", "e", "s", "t", " ", "o", "b", "l", "i", "g", "a", "t", "o", "i", "r", "e">>
FOURNISSEUR_NON_SUPPORTE == <<"F", "o", "u", "r", "n", "i", "s", "s", "e", "u", "r", " ", "n", "o", "n", " ", "s", "u", "p", "p", "o", "r", "t", "é", ".", " ", "U", "t", "i", "l", "i", "s", "e", "z", " ", "'", "l", "u", "x", "i", "o", "r", "'", " ", "o", "u", " ", "'", "a", "m", "i", "3", "f", "'">>

\* class ProduitResponse(BaseModel): the four optional fields default to None
ProduitResponse(reference, fournisseur, prix, designation, disponibilite, erreur) ==
    [reference |-> reference, fournisseur |-> fournisseur, prix |-> prix,
     designation |-> designation, disponibilite |-> disponibilite,
     erreur |-> erreur]

(***************************************************************************)
(* Exceptions the outbound call and the parser raise, with their classes.  *)
(***************************************************************************)
ExceptionClasses ==
    {"ConnectTimeout", "ReadTimeout", "ConnectError", "TooManyRedirects",
     "ParserRejectedMarkup"}

\* isinstance(e, httpx.TimeoutException)
IsTimeoutException(e) == e.cls \in {"ConnectTimeout", "ReadTimeout",
                                    "WriteTimeout", "PoolTimeout"}

\* isinstance(e, Exception)
IsException(e) == e.cls \in ExceptionClasses \cup {"WriteTimeout", "PoolTimeout"}

Return(v) == [control |-> "return", value |-> v]
Raise(e) == [control |-> "raise", exc |-> e]

(***************************************************************************)
(* BeautifulSoup: a parsed page is the sequence of its candidate elements  *)
(* in document order; an element has a tag, its class tokens in attribute  *)
(* order, its text and, for a top-level element, the elements inside it.   *)
(***************************************************************************)
\* re.compile('product.*title|name').search on one class token
search_title_name_token(c) ==
    c \in {"product-title", "product-name", "name", "product_name"}

\* ... and on the class tokens joined by spaces, which bs4 tries last
search_title_name(cls) ==
    \/ \E i \in 1..Len(cls) : search_title_name_token(cls[i])
    \/ \E i, j \in 1..Len(cls) :
          /\ i < j
          /\ cls[i] \in {"product", "product-card", "product-item-link"}
          /\ cls[j] \in {"title", "subtitle"}

\* re.compile('price').search
search_price(cls) ==
    \E i \in 1..Len(cls) : cls[i] \in {"price", "old-price", "product-price"}

\* re.compile('stock|availability').search
search_stock_availability(cls) ==
    \E i \in 1..Len(cls) : cls[i] \in {"stock", "availability", "in-stock"}

\* class_='x': some class token is exactly x
has_class(cls, x) == \E i \in 1..Len(cls) : cls[i] = x

\* the elements of a sequence
Elements(elems) == {elems[i] : i \in 1..Len(elems)}

\* Tag.find: the first element, in document order, among the matching ones
find(elems, matching) ==
    LET hits == {i \in 1..Len(elems) : elems[i] \in matching}
    IN  IF hits = {} THEN None ELSE Some(elems[SetMin(hits)])

\* element.text.strip() if element else default
text_or(element, default) ==
    IF element # None THEN Some(strip(Get(element).text)) ELSE default

(***************************************************************************)
(* The outcome of `await client.get(search_url)`: a response, or an        *)
(* exception raised by httpx.                                              *)
(***************************************************************************)
NoException == [cls |-> "", msg |-> <<>>]
NoBody == [parses |-> TRUE, elems |-> <<>>]

Response(status_code, body) ==
    [kind |-> "response", status_code |-> status_code, body |-> body,
     exc |-> NoException]
Raised(cls, msg) ==
    [kind |-> "raise", status_code |-> 0, body |-> NoBody,
     exc |-> [cls |-> cls, msg |-> msg]]

(***************************************************************************)
(* scrape_luxior                                                           *)
(***************************************************************************)
\* main.py 62: the product URL the function builds and never requests
luxior_url == [host |-> "www.luxior.fr",
               path |-> "/catalog/product/view/id/443402", q |-> <<>>]

\* main.py 66: f"https://www.luxior.fr/catalogsearch/result/?q={reference}"
luxior_search_url(reference) ==
    [host |-> "www.luxior.fr", path |-> "/catalogsearch/result/",
     q |-> reference]

\* a variant that also requests the product URL
luxior_requests_and_product(reference) ==
    <<luxior_search_url(reference), luxior_url>>

\* main.py 64-67: the requests one call of scrape_luxior sends
luxior_requests(reference) == <<luxior_search_url(reference)>>

\* a variant that takes only the 4xx and 5xx statuses for failures
is_http_error_4xx_5xx(status_code) == status_code >= HTTP_400

\* main.py 69 / 139: response.status_code != 200
is_http_error(status_code) == status_code # HTTP_200

\* main.py 70-74 / 140-144
http_error_record(reference, fournisseur, status_code) ==
    ProduitResponse(reference, fournisseur, None, None, None,
                    Some(ERREUR_HTTP \o str_int(status_code)))

\* main.py 82-86 / 156-160
not_found_record(reference, fournisseur) ==
    ProduitResponse(reference, fournisseur, None, None, None,
                    Some(PRODUIT_NON_TROUVE))

\* main.py 76 / 146: BeautifulSoup(response.text, 'html.parser') raises
\* ParserRejectedMarkup on markup the parser rejects
REJECTED_MSG == <<"r", "e", "j", "e", "c", "t", "e", "d">>
ParserRejectedMarkup == [cls |-> "ParserRejectedMarkup", msg |-> REJECTED_MSG]

\* main.py 79: soup.find('div', class_='product-item-info')
find_product_item(soup) ==
    find(soup.elems,
            {e \in Elements(soup.elems) :
                e.tag = "div" /\ has_class(e.cls, "product-item-info")})

\* a variant that reports an unreadable price in the error field
extract_luxior_price_required(reference, product_item) ==
    LET name_element == find(product_item.kids,
            {e \in Elements(product_item.kids) :
                e.tag = "a" /\ has_class(e.cls, "product-item-link")})
        designation == text_or(name_element, Some(NA))
        price_element == find(product_item.kids,
            {e \in Elements(product_item.kids) :
                e.tag = "span" /\ has_class(e.cls, "price")})
        prix == normalize_price(text_or(price_element, None))
        stock_element == find(product_item.kids,
            {e \in Elements(product_item.kids) :
                e.tag = "div" /\ has_class(e.cls, "stock")})
        disponibilite == text_or(stock_element, Some(A_VERIFIER))
    IN  ProduitResponse(reference, LUXIOR, prix, designation, disponibilite,
                        IF prix = None THEN Some(ERREUR_PREFIX) ELSE None)

\* main.py 88-115: the fields read inside the container
extract_luxior(reference, product_item) ==
    LET name_element == find(product_item.kids,
            {e \in Elements(product_item.kids) :
                e.tag = "a" /\ has_class(e.cls, "product-item-link")})
        designation == text_or(name_element, Some(NA))
        price_element == find(product_item.kids,
            {e \in Elements(product_item.kids) :
                e.tag = "span" /\ has_class(e.cls, "price")})
        prix_text == text_or(price_element, None)
        prix == normalize_price(prix_text)
        stock_element == find(product_item.kids,
            {e \in Elements(product_item.kids) :
                e.tag = "div" /\ has_class(e.cls, "stock")})
        disponibilite == text_or(stock_element, Some(A_VERIFIER))
    IN  ProduitResponse(reference, LUXIOR, prix, designation, disponibilite,
                        None)

\* main.py 61-115: the body of the try statement
scrape_luxior_try(reference, response) ==
    IF response.kind = "raise" THEN Raise(response.exc)
    ELSE IF is_http_error(response.status_code)
    THEN Return(http_error_record(reference, LUXIOR, response.status_code))
    ELSE IF ~response.body.parses THEN Raise(ParserRejectedMarkup)
    ELSE LET product_item == find_product_item(response.body)
         IN  IF product_item = None
             THEN Return(not_found_record(reference, LUXIOR))
             ELSE Return(extract_luxior(reference, Get(product_item)))

\* a variant with the TimeoutException clause alone
luxior_except_timeout_only(reference, r) ==
    IF r.control = "return" THEN r
    ELSE IF IsTimeoutException(r.exc)
    THEN Return(ProduitResponse(reference, LUXIOR, None, None, None,
                                Some(TIMEOUT_LUXIOR)))
    ELSE r

\* main.py 117-128: the except clauses
luxior_except(reference, r) ==
    IF r.control = "return" THEN r
    ELSE IF IsTimeoutException(r.exc)
    THEN Return(ProduitResponse(reference, LUXIOR, None, None, None,
                                Some(TIMEOUT_LUXIOR)))
    ELSE IF IsException(r.exc)
    THEN Return(ProduitResponse(reference, LUXIOR, None, None, None,
                                Some(ERREUR_PREFIX \o r.exc.msg)))
    ELSE r

\* main.py 59-128, from the outcome of the awaited request on
scrape_luxior(reference, response) ==
    luxior_except(reference, scrape_luxior_try(reference, response))

(***************************************************************************)
(* scrape_ami3f                                                            *)
(***************************************************************************)
\* main.py 134: f"https://www.ami3f.com/recherche?q={reference}"
ami3f_search_url(reference) ==
    [host |-> "www.ami3f.com", path |-> "/recherche", q |-> reference]

\* main.py 136-137: the requests one call of scrape_ami3f sends
ami3f_requests(reference) == <<ami3f_search_url(reference)>>

\* a variant that never tries the second container
find_product_card_primary_only(soup) ==
    find(soup.elems,
            {e \in Elements(soup.elems) :
                e.tag = "div" /\ has_class(e.cls, "product-card")})

\* main.py 149-153: div.product-card, else article.product
find_product_card(soup) ==
    LET product_card == find(soup.elems,
            {e \in Elements(soup.elems) :
                e.tag = "div" /\ has_class(e.cls, "product-card")})
    IN  IF product_card = None
        THEN find(soup.elems,
            {e \in Elements(soup.elems) :
                e.tag = "article" /\ has_class(e.cls, "product")})
        ELSE product_card

\* main.py 162-188: the fields read inside the container
extract_ami3f(reference, product_card) ==
    LET name_element == find(product_card.kids,
            {e \in Elements(product_card.kids) :
                e.tag \in {"h2", "h3", "a"} /\ search_title_name(e.cls)})
        designation == text_or(name_element, Some(NA))
        price_element == find(product_card.kids,
            {e \in Elements(product_card.kids) :
                e.tag \in {"span", "div"} /\ search_price(e.cls)})
        prix_text == text_or(price_element, None)
        prix == normalize_price(prix_text)
        stock_element == find(product_card.kids,
            {e \in Elements(product_card.kids) :
                e.tag \in {"span", "div"} /\ search_stock_availability(e.cls)})
        disponibilite == text_or(stock_element, Some(A_VERIFIER))
    IN  ProduitResponse(reference, AMI3F, prix, designation, disponibilite,
                        None)

\* main.py 132-188: the body of the try statement
scrape_ami3f_try(reference, response) ==
    IF response.kind = "raise" THEN Raise(response.exc)
    ELSE IF is_http_error(response.status_code)
    THEN Return(http_error_record(reference, AMI3F, response.status_code))
    ELSE IF ~response.body.parses THEN Raise(ParserRejectedMarkup)
    ELSE LET product_card == find_product_card(response.body)
         IN  IF product_card = None
             THEN Return(not_found_record(reference, AMI3F))
             ELSE Return(extract_ami3f(reference, Get(product_card)))

\* main.py 190-201: the except clauses
ami3f_except(reference, r) ==
    IF r.control = "return" THEN r
    ELSE IF IsTimeoutException(r.exc)
    THEN Return(ProduitResponse(reference, AMI3F, None, None, None,
                                Some(TIMEOUT_AMI3F)))
    ELSE IF IsException(r.exc)
    THEN Return(ProduitResponse(reference, AMI3F, None, None, None,
                                Some(ERREUR_PREFIX \o r.exc.msg)))
    ELSE r

\* main.py 130-201, from the outcome of the awaited request on
scrape_ami3f(reference, response) ==
    ami3f_except(reference, scrape_ami3f_try(reference, response))

(***************************************************************************)
(* recherche_produit and the two test endpoints.                           *)
(***************************************************************************)
\* a variant that tests only for the empty string
is_blank_empty_only(reference) == reference = <<>>

\* main.py 207: not produit.reference or not produit.reference.strip()
is_blank(reference) == reference = <<>> \/ strip(reference) = <<>>

\* a variant that compares the supplier name as given
select_adapter_case_sensitive(fournisseur) ==
    IF fournisseur = LUXIOR THEN "scrape_luxior"
    ELSE IF fournisseur = AMI3F THEN "scrape_ami3f"
    ELSE "none"

\* main.py 210-220: the adapter the lower-cased supplier name selects
select_adapter(fournisseur) ==
    LET f == lower(fournisseur)
    IN  IF f = LUXIOR THEN "scrape_luxior"
        ELSE IF f = AMI3F THEN "scrape_ami3f"
        ELSE "none"

\* raise HTTPException(status_code=..., detail=...), as FastAPI answers it
HTTPException(status_code, detail) ==
    [status_code |-> status_code, detail |-> Some(detail), body |-> None]

\* a variant that answers an error record with a client error
endpoint_return_400_on_erreur(r) ==
    IF r.control = "return"
    THEN IF r.value.erreur # None
         THEN HTTPException(HTTP_400, Get(r.value.erreur))
         ELSE [status_code |-> HTTP_200, detail |-> None,
               body |-> Some(r.value)]
    ELSE [status_code |-> 500, detail |-> None, body |-> None]

\* main.py 213, 215, 225, 230: `return await scrape_...(reference)`: the
\* record is the body of a 200 response; an exception leaving the endpoint
\* is answered 500 by the framework
endpoint_return(r) ==
    IF r.control = "return"
    THEN [status_code |-> HTTP_200, detail |-> None, body |-> Some(r.value)]
    ELSE [status_code |-> 500, detail |-> None, body |-> None]

\* the requests the selected adapter sends before it suspends
adapter_requests(adapter, reference) ==
    IF adapter = "scrape_luxior" THEN luxior_requests(reference)
    ELSE ami3f_requests(reference)

(***************************************************************************)
(* Inputs: request fields, upstream pages and outcomes.                    *)
(***************************************************************************)
Procs == {"c1", "c2"}

References == {<<>>, <<" ", "\n">>, <<"A", "1">>}

Fournisseurs == {LUXIOR, <<"L", "u", "x", "i", "o", "r">>, <<"A", "M", "I", "3", "F">>, AMI3F,
                 <<"o", "d", "o", "o">>, <<>>}

Statuses == {HTTP_200, 204, 404, 500}

\* every text of length at most n over the alphabet A
RECURSIVE Texts(_, _)
Texts(A, n) ==
    IF n = 0 THEN {<<>>}
    ELSE LET shorter == Texts(A, n - 1)
         IN  shorter \cup {Append(t, c) : t \in {u \in shorter : Len(u) = n - 1},
                                          c \in A}

Kid(tag, cls, text) == [tag |-> tag, cls |-> cls, text |-> text]
Elem(tag, cls, kids) == [tag |-> tag, cls |-> cls, kids |-> kids]
Page(elems) == [parses |-> TRUE, elems |-> elems]
Unparsable == [parses |-> FALSE, elems |-> <<>>]

T_LAMPE == <<" ", "L", "a", "m", "p", "e", " ">>
T_SPOT == <<"S", "p", "o", "t">>
T_STOCK == <<"E", "n", " ", "s", "t", "o", "c", "k">>
T_PRICE_A == <<"1", " ", "2", "3", "4", ",", "5", "6", " ", "€">>
T_PRICE_B == <<"9", ",", "9", "0">>
T_CONTACT == <<"C", "o", "n", "t", "a", "c", "t", " ", "u", "s">>
T_MULTI == <<"1", ".", "2", "3", "4", ",", "5", "6">>

\* contents of a product container, luxior and ami3f markup mixed
KIDS_FULL ==
    <<Kid("a", <<"product-item-link", "name">>, T_LAMPE),
      Kid("span", <<"price">>, T_PRICE_A),
      Kid("div", <<"stock">>, T_STOCK)>>
KIDS_TWO_PRICES ==
    <<Kid("h2", <<"product", "title">>, T_SPOT),
      Kid("div", <<"old-price">>, T_MULTI),
      Kid("span", <<"price">>, T_PRICE_B),
      Kid("span", <<"availability">>, <<>>)>>
KIDS_CONTACT ==
    <<Kid("span", <<"price">>, T_CONTACT),
      Kid("h3", <<"product-name">>, T_SPOT)>>
KIDS_NONE == <<>>

KidLists == {KIDS_FULL, KIDS_TWO_PRICES, KIDS_CONTACT, KIDS_NONE}

ContainerKinds ==
    {<<"div", <<"product-item-info">>>>, <<"div", <<"product-card">>>>,
     <<"article", <<"product">>>>, <<"div", <<"banner">>>>}

TopElems == {Elem(k[1], k[2], kids) : k \in ContainerKinds, kids \in KidLists}

\* every page of at most n top-level elements
RECURSIVE ElemSeqs(_)
ElemSeqs(n) ==
    IF n = 0 THEN {<<>>}
    ELSE LET shorter == ElemSeqs(n - 1)
         IN  shorter \cup {Append(t, e) : t \in {u \in shorter : Len(u) = n - 1},
                                          e \in TopElems}

Pages == {Page(es) : es \in ElemSeqs(MaxElems)} \cup {Unparsable}

\* a few pages, for the runs with two concurrent clients
FewPages ==
    {Page(<<>>),
     Page(<<Elem("div", <<"product-item-info", "product-card">>, KIDS_FULL)>>),
     Unparsable}

PriceAlphabet == {"0", "1", "5", ",", ".", " ", "-", "€"}

PriceTexts ==
    Texts(PriceAlphabet, MaxLen) \cup {T_PRICE_A, T_PRICE_B, T_CONTACT, T_MULTI}

\* one container both adapters find, holding one price element
PricePage(t) ==
    Page(<<Elem("div", <<"product-item-info", "product-card">>,
                <<Kid("a", <<"product-item-link", "name">>, T_SPOT),
                  Kid("span", <<"price">>, t)>>)>>)

\* the same container without a price element
NoPricePage ==
    Page(<<Elem("div", <<"product-item-info", "product-card">>,
                <<Kid("a", <<"product-item-link", "name">>, T_SPOT)>>)>>)

PricePages == {PricePage(t) : t \in PriceTexts} \cup {NoPricePage}

M_REFUSED == <<"r", "e", "f", "u", "s", "e", "d">>
M_REDIRECTS == <<"E", "x", "c", "e", "e", "d", "e", "d", " ", "m", "a", "x", "i", "m", "u", "m", " ", "a", "l", "l", "o", "w", "e", "d", " ", "r", "e", "d", "i", "r", "e", "c", "t", "s", ".">>

RaisedOutcomes ==
    {Raised("ReadTimeout", <<>>), Raised("ConnectTimeout", <<>>),
     Raised("ConnectError", M_REFUSED),
     Raised("TooManyRedirects", M_REDIRECTS)}

\* the pages upstream can serve, by the name of the set
Served(name) ==
    CASE name = "FewPages" -> FewPages
      [] name = "Pages" -> Pages
      [] name = "PricePages" -> PricePages

\* what the awaited request can come back with, given the pages upstream can
\* serve
Outcomes(name) ==
    {Response(s, b) : s \in Statuses, b \in Served(name)} \cup RaisedOutcomes

(***************************************************************************)
(* The service: each client has at most one request in the service at a    *)
(* time; a request's coroutine runs to its await, is resumed with the      *)
(* outcome of its own request, and answers.                                *)
(***************************************************************************)
NoRequest == [endpoint |-> "", reference |-> <<>>, fournisseur |-> <<>>]

\* cs: the clients that send requests; name: the set of pages upstream serves
InitWith(cs, name) ==
    /\ clients = cs
    /\ catalog = name
    /\ pc = [p \in Procs |-> "idle"]
    /\ req = [p \in Procs |-> NoRequest]
    /\ called = [p \in Procs |-> {}]
    /\ wire = [p \in Procs |-> <<>>]
    /\ outcome = [p \in Procs |-> None]
    /\ ret = [p \in Procs |-> None]
    /\ resp = [p \in Procs |-> None]

\* two concurrent clients, a few upstream pages
Init == InitWith(Procs, "FewPages")

\* one client, every page of at most MaxElems elements
InitPages == InitWith({"c1"}, "Pages")

\* one client, a product container with every price text
InitPrices == InitWith({"c1"}, "PricePages")

\* the coroutine enters the adapter and runs to `await client.get(...)`
Enter(p, endpoint, reference, fournisseur, adapter) ==
    /\ req' = [req EXCEPT ![p] = [endpoint |-> endpoint,
                                  reference |-> reference,
                                  fournisseur |-> fournisseur]]
    /\ called' = [called EXCEPT ![p] = {adapter}]
    /\ wire' = [wire EXCEPT ![p] = adapter_requests(adapter, reference)]
    /\ pc' = [pc EXCEPT ![p] = "await"]
    /\ UNCHANGED <<outcome, ret, resp>>

\* the endpoint raises HTTPException before any adapter is entered
Reject(p, reference, fournisseur, detail) ==
    /\ req' = [req EXCEPT ![p] = [endpoint |-> "/api/recherche",
                                  reference |-> reference,
                                  fournisseur |-> fournisseur]]
    /\ resp' = [resp EXCEPT ![p] = Some(HTTPException(HTTP_400, detail))]
    /\ pc' = [pc EXCEPT ![p] = "done"]
    /\ UNCHANGED <<called, wire, outcome, ret>>

\* main.py 203-220: POST /api/recherche
recherche_produit(p) ==
    /\ p \in clients
    /\ pc[p] = "idle"
    /\ \E reference \in References, fournisseur \in Fournisseurs :
          IF is_blank(reference)
          THEN Reject(p, reference, fournisseur, REFERENCE_OBLIGATOIRE)
          ELSE IF select_adapter(fournisseur) = "none"
          THEN Reject(p, reference, fournisseur, FOURNISSEUR_NON_SUPPORTE)
          ELSE Enter(p, "/api/recherche", reference, fournisseur,
                     select_adapter(fournisseur))
    /\ UNCHANGED <<clients, catalog>>

\* main.py 222-225: GET /api/test-luxior/{reference}
test_luxior(p) ==
    /\ p \in clients
    /\ pc[p] = "idle"
    /\ \E reference \in References :
          Enter(p, "/api/test-luxior", reference, <<>>, "scrape_luxior")
    /\ UNCHANGED <<clients, catalog>>

\* main.py 227-230: GET /api/test-ami3f/{reference}
test_ami3f(p) ==
    /\ p \in clients
    /\ pc[p] = "idle"
    /\ \E reference \in References :
          Enter(p, "/api/test-ami3f", reference, <<>>, "scrape_ami3f")
    /\ UNCHANGED <<clients, catalog>>

\* main.py 67 / 137: the awaited request completes, with a response or an
\* exception, and the coroutine becomes runnable
client_get(p) ==
    /\ pc[p] = "await"
    /\ \E o \in Outcomes(catalog) : outcome' = [outcome EXCEPT ![p] = Some(o)]
    /\ pc' = [pc EXCEPT ![p] = "resume"]
    /\ UNCHANGED <<clients, catalog, req, called, wire, ret, resp>>

\* a variant in which `response` is one module-level name: a coroutine
\* resumed while another one also holds an outcome reads that one's
response_of_shared(p) ==
    IF \E q \in Procs \ {p} : pc[q] = "resume"
    THEN Get(outcome[CHOOSE q \in Procs \ {p} : pc[q] = "resume"])
    ELSE Get(outcome[p])

\* main.py 67 / 137: `response` is a local of the coroutine
response_of(p) == Get(outcome[p])

\* the adapter returns (or raises) and the endpoint answers
Answer(p, r) ==
    /\ ret' = [ret EXCEPT ![p] = IF r.control = "return" THEN Some(r.value)
                                 ELSE None]
    /\ resp' = [resp EXCEPT ![p] = Some(endpoint_return(r))]
    /\ pc' = [pc EXCEPT ![p] = "done"]
    /\ UNCHANGED <<clients, catalog, req, called, wire, outcome>>

\* main.py 69-128: scrape_luxior from its await to its return
scrape_luxior_resume(p) ==
    /\ pc[p] = "resume"
    /\ called[p] = {"scrape_luxior"}
    /\ Answer(p, scrape_luxior(req[p].reference, response_of(p)))

\* main.py 139-201: scrape_ami3f from its await to its return
scrape_ami3f_resume(p) ==
    /\ pc[p] = "resume"
    /\ called[p] = {"scrape_ami3f"}
    /\ Answer(p, scrape_ami3f(req[p].reference, response_of(p)))

\* the response is sent; request and record are discarded
Close(p) ==
    /\ pc[p] = "done"
    /\ pc' = [pc EXCEPT ![p] = "idle"]
    /\ req' = [req EXCEPT ![p] = NoRequest]
    /\ called' = [called EXCEPT ![p] = {}]
    /\ wire' = [wire EXCEPT ![p] = <<>>]
    /\ outcome' = [outcome EXCEPT ![p] = None]
    /\ ret' = [ret EXCEPT ![p] = None]
    /\ resp' = [resp EXCEPT ![p] = None]
    /\ UNCHANGED <<clients, catalog>>

Next ==
    \E p \in Procs :
        \/ recherche_produit(p)
        \/ test_luxior(p)
        \/ test_ami3f(p)
        \/ client_get(p)
        \/ scrape_luxior_resume(p)
        \/ scrape_ami3f_resume(p)
        \/ Close(p)

Spec == Init /\ [][Next]_vars
SpecPages == InitPages /\ [][Next]_vars
SpecPrices == InitPrices /\ [][Next]_vars

(***************************************************************************)
(* Properties.                                                             *)
(***************************************************************************)
\* the lookup of client p has ended inside an adapter
LookupDone(p) == pc[p] = "done" /\ called[p] # {}

\* the request of client p went to the dispatcher
Dispatched(p) == pc[p] # "idle" /\ req[p].endpoint = "/api/recherche"

\* the request of client p was answered with a 400 client error
Rejected(p) ==
    pc[p] = "done" /\ resp[p] # None /\ Get(resp[p]).status_code = 400

\* empty, or whitespace characters only
BlankText(t) == \A i \in 1..Len(t) : t[i] \in {" ", "\t", "\n"}

\* the same letter, whatever the case
SameLetter(c, d) ==
    c = d \/ \E i \in 1..26 : {c, d} = {UpperCase[i], LowerCase[i]}

\* equal but for the case of the letters
SameIgnoringCase(a, b) ==
    Len(a) = Len(b) /\ \A i \in 1..Len(a) : SameLetter(a[i], b[i])

\* error populated; price, designation and availability absent
ErrorShape(r) ==
    /\ r.erreur # None
    /\ r.prix = None /\ r.designation = None /\ r.disponibilite = None

\* error absent; designation and availability populated
SuccessShape(r) ==
    /\ r.erreur = None
    /\ r.designation # None /\ r.disponibilite # None

\* C1: whatever the outbound call does (a response of any status, a
\* timeout, a connection failure, too many redirects, a body the parser
\* rejects), a lookup that has ended has returned a ProduitResponse for its
\* own reference and supplier, and no exception has left the adapter (the
\* endpoint did not answer 500).
C1_AlwaysReturnsRecord ==
    \A p \in Procs :
        LookupDone(p) =>
            /\ ret[p] # None
            /\ Get(ret[p]).reference = req[p].reference
            /\ Get(ret[p]).fournisseur =
                  (IF called[p] = {"scrape_luxior"} THEN LUXIOR ELSE AMI3F)
            /\ Get(resp[p]).status_code # 500

\* C1 witness: both a connection failure and a rejected body have ended in
\* returned records
C1_Witness ==
    /\ LookupDone("c1") /\ LookupDone("c2")
    /\ Get(outcome["c1"]).exc.cls = "ConnectError"
    /\ Get(outcome["c2"]).kind = "response"
    /\ Get(outcome["c2"]).status_code = 200
    /\ ~Get(outcome["c2"]).body.parses
    /\ ret["c1"] # None /\ ret["c2"] # None
    /\ called["c1"] = {"scrape_luxior"} /\ called["c2"] = {"scrape_ami3f"}

\* C2: every record an adapter returns is an error record (error populated,
\* the three other fields absent) or a success record (error absent,
\* designation and availability populated), never a mix and never empty.
C2_TwoShapes ==
    \A p \in Procs :
        (LookupDone(p) /\ ret[p] # None) =>
            LET r == Get(ret[p])
            IN  /\ ErrorShape(r) \/ SuccessShape(r)
                /\ ~(r.erreur # None /\ (r.prix # None \/ r.designation # None
                                         \/ r.disponibilite # None))
                /\ ~(r.erreur = None /\ r.prix = None /\ r.designation = None
                     /\ r.disponibilite = None)

\* C2 witness: a success record with the price absent (partial success)
C2_Witness ==
    /\ LookupDone("c1")
    /\ ret["c1"] # None
    /\ SuccessShape(Get(ret["c1"]))
    /\ Get(ret["c1"]).prix = None
    /\ Get(ret["c1"]).designation # Some(NA)

\* C3: a dispatcher request whose reference is empty or whitespace only is
\* rejected with a 400, whatever the supplier; no adapter is entered and no
\* outbound request is sent.
C3_BlankReferenceRejected ==
    \A p \in Procs :
        (Dispatched(p) /\ BlankText(req[p].reference)) =>
            /\ Rejected(p)
            /\ called[p] = {}
            /\ wire[p] = <<>>
            /\ outcome[p] = None
            /\ ret[p] = None

\* C3 witness: a whitespace-only reference with a recognised supplier,
\* rejected
C3_Witness ==
    /\ Dispatched("c1")
    /\ req["c1"].reference = <<" ", "\n">>
    /\ req["c1"].fournisseur = LUXIOR
    /\ Rejected("c1")
    /\ wire["c1"] = <<>>

\* C4: a dispatcher request with a non-blank reference is rejected with a
\* 400 exactly when its supplier, case ignored, is neither "luxior" nor
\* "ami3f"; a rejected request enters no adapter, an accepted one enters
\* the adapter its supplier names and no other.
C4_SupplierSelectsAdapter ==
    \A p \in Procs :
        (Dispatched(p) /\ ~BlankText(req[p].reference)) =>
            LET f == req[p].fournisseur
                known == SameIgnoringCase(f, LUXIOR) \/ SameIgnoringCase(f, AMI3F)
            IN  /\ Rejected(p) <=> ~known
                /\ Rejected(p) => called[p] = {} /\ wire[p] = <<>>
                /\ SameIgnoringCase(f, LUXIOR) => called[p] = {"scrape_luxior"}
                /\ SameIgnoringCase(f, AMI3F) => called[p] = {"scrape_ami3f"}

\* C4 witness: "Luxior" is accepted and enters scrape_luxior while "odoo"
\* is rejected
C4_Witness ==
    /\ Dispatched("c1") /\ Dispatched("c2")
    /\ req["c1"].fournisseur = <<"L", "u", "x", "i", "o", "r">>
    /\ called["c1"] = {"scrape_luxior"}
    /\ req["c2"].fournisseur = <<"o", "d", "o", "o">>
    /\ ~BlankText(req["c2"].reference)
    /\ Rejected("c2")

\* C5: a dispatcher request that passes validation is answered 200 with the
\* adapter's record as it was returned, also when its error field is
\* populated; a 400 comes from validation only (blank reference, unknown
\* supplier), in which case no adapter ran.
C5_AdapterErrorsAre200 ==
    \A p \in Procs :
        (Dispatched(p) /\ pc[p] = "done") =>
            /\ called[p] # {} =>
                  /\ Get(resp[p]).status_code = 200
                  /\ ret[p] # None
                  /\ Get(resp[p]).body = ret[p]
            /\ Get(resp[p]).status_code = 400 =>
                  /\ called[p] = {} /\ outcome[p] = None
                  /\ \/ BlankText(req[p].reference)
                     \/ ~(\/ SameIgnoringCase(req[p].fournisseur, LUXIOR)
                          \/ SameIgnoringCase(req[p].fournisseur, AMI3F))

\* C5 witness: a timeout of the outbound call answered 200 with the error
\* record
C5_Witness ==
    /\ Dispatched("c1") /\ LookupDone("c1")
    /\ IsTimeoutException(Get(outcome["c1"]).exc)
    /\ Get(resp["c1"]).status_code = 200
    /\ Get(resp["c1"]).body # None
    /\ Get(Get(resp["c1"]).body).erreur # None

\* the lookup of client p has ended and its request came back with a
\* response (of any status)
Responded(p) == LookupDone(p) /\ Get(outcome[p]).kind = "response"

\* the supplier name the adapter entered by client p writes in its records
AdapterName(p) == IF called[p] = {"scrape_luxior"} THEN LUXIOR ELSE AMI3F

\* the HTTP-error record for a status
HttpErrorRecord(p, status) ==
    [reference |-> req[p].reference, fournisseur |-> AdapterName(p),
     prix |-> None, designation |-> None, disponibilite |-> None,
     erreur |-> Some(ERREUR_HTTP \o str_int(status))]

\* the error of record r is an HTTP-error message
IsHttpError(r) ==
    r.erreur # None /\ SubSeq(Get(r.erreur), 1, Len(ERREUR_HTTP)) = ERREUR_HTTP

\* some top-level element of the page has the tag and the class
HasContainer(body, tag, class) ==
    \E i \in 1..Len(body.elems) :
        /\ body.elems[i].tag = tag
        /\ \E j \in 1..Len(body.elems[i].cls) : body.elems[i].cls[j] = class

\* C6 as stated, a success status being any 2xx: a status outside 200..299
\* gives the HTTP-error record, a status inside it never does.
C6_AsStated ==
    \A p \in Procs :
        Responded(p) =>
            LET status == Get(outcome[p]).status_code
            IN  /\ status \notin 200..299 =>
                      ret[p] = Some(HttpErrorRecord(p, status))
                /\ status \in 200..299 => ~IsHttpError(Get(ret[p]))

\* C6 amended: a status other than 200 (204 included) gives the record
\* whose error is "Erreur HTTP <status>" and whose other fields are absent,
\* whatever the body holds; the status 200 never gives an HTTP-error
\* record.
C6_Not200IsHttpError ==
    \A p \in Procs :
        Responded(p) =>
            LET status == Get(outcome[p]).status_code
            IN  /\ status # 200 => ret[p] = Some(HttpErrorRecord(p, status))
                /\ status = 404 =>
                      Get(ret[p]).erreur = Some(<<"E", "r", "r", "e", "u", "r", " ", "H", "T", "T", "P", " ", "4", "0", "4">>)
                /\ status = 200 => ~IsHttpError(Get(ret[p]))

\* C6 witness: a 404 whose body holds a product container, answered with
\* the HTTP-error record
C6_Witness ==
    /\ Responded("c1")
    /\ called["c1"] = {"scrape_luxior"}
    /\ Get(outcome["c1"]).status_code = 404
    /\ HasContainer(Get(outcome["c1"]).body, "div", "product-item-info")
    /\ IsHttpError(Get(ret["c1"]))

\* the body of a 200 response the parser accepted
Parsed(p) ==
    /\ Responded(p)
    /\ Get(outcome[p]).status_code = 200
    /\ Get(outcome[p]).body.parses

NotFound(r) == r.erreur = Some(PRODUIT_NON_TROUVE)

\* the first top-level element of the page with the tag and the class
FirstContainer(body, tag, class) ==
    body.elems[CHOOSE i \in 1..Len(body.elems) :
        /\ HasContainer(Page(<<body.elems[i]>>), tag, class)
        /\ \A k \in 1..(i - 1) :
              ~HasContainer(Page(<<body.elems[k]>>), tag, class)]

RawPrice(body) ==
    LET ks == body.elems[1].kids
    IN  IF Len(ks) >= 2 THEN Some(ks[2].text) ELSE None

RECURSIVE Pow10(_)
Pow10(n) == IF n = 0 THEN 1 ELSE 10 * Pow10(n - 1)

\* the number a digit string writes, read from its first digit down
RECURSIVE NatOf(_)
NatOf(ds) ==
    IF ds = <<>> THEN 0
    ELSE DigitVal(Head(ds)) * Pow10(Len(ds) - 1) + NatOf(Tail(ds))

\* v is the number the raw text writes once everything but digits, comma
\* and period is dropped and the one comma or period is the decimal point
ReadsAs(raw, v) ==
    LET seps == {i \in 1..Len(raw) : raw[i] \in {",", "."}}
        digs == SelectSeq(raw, LAMBDA c : c \in Digits)
        frac == Cardinality({i \in 1..Len(raw) :
                    /\ raw[i] \in Digits
                    /\ \E k \in seps : k < i})
    IN  /\ Cardinality(seps) <= 1
        /\ digs # <<>>
        /\ ~v.neg
        /\ v.mant * Pow10(frac) = NatOf(digs) * Pow10(v.scale)

\* C8: with a product container found, whatever the price text (no price
\* element, no digit, several separators, a sign), the record has no error
\* and has its designation and availability; its price is absent or the
\* non-negative number the text writes, comma read as the decimal point:
\* "1 234,56 €" gives 1234.56, "Contact us" and "1.234,56" give no price.
C8_PriceNeverAnError ==
    \A p \in Procs :
        Parsed(p) =>
            LET raw == RawPrice(Get(outcome[p]).body)
                r == Get(ret[p])
            IN  /\ r.erreur = None
                /\ r.designation = Some(T_SPOT)
                /\ r.disponibilite = Some(A_VERIFIER)
                /\ raw = None => r.prix = None
                /\ r.prix # None => raw # None /\ ReadsAs(Get(raw), Get(r.prix))
                /\ raw = Some(T_PRICE_A) =>
                      r.prix = Some([neg |-> FALSE, mant |-> 123456,
                                     scale |-> 2])
                /\ raw \in {Some(T_CONTACT), Some(T_MULTI)} => r.prix = None

\* C8 witness: the price text "Contact us" in a returned success record
\* without a price
C8_Witness ==
    /\ Parsed("c1")
    /\ RawPrice(Get(outcome["c1"]).body) = Some(T_CONTACT)
    /\ Get(ret["c1"]).erreur = None
    /\ Get(ret["c1"]).prix = None
    /\ Get(ret["c1"]).designation # None

\* the one attempt of the lookup of client p failed
Failed(p) ==
    LET o == Get(outcome[p])
    IN  \/ o.kind = "raise"
        \/ o.status_code # 200
        \/ ~o.body.parses
        \/ /\ called[p] = {"scrape_luxior"}
           /\ ~HasContainer(o.body, "div", "product-item-info")
        \/ /\ called[p] = {"scrape_ami3f"}
           /\ ~HasContainer(o.body, "div", "product-card")
           /\ ~HasContainer(o.body, "article", "product")

\* the search request of the lookup of client p
SearchRequest(p) ==
    IF called[p] = {"scrape_luxior"}
    THEN [host |-> "www.luxior.fr", path |-> "/catalogsearch/result/",
          q |-> req[p].reference]
    ELSE [host |-> "www.ami3f.com", path |-> "/recherche",
          q |-> req[p].reference]

C9_OneRequest ==
    \A p \in Procs :
        /\ Len(wire[p]) <= 1
        /\ called[p] # {} => wire[p] = <<SearchRequest(p)>>
        /\ (LookupDone(p) /\ Failed(p)) =>
              /\ ret[p] # None
              /\ ErrorShape(Get(ret[p]))
        /\ (LookupDone(p) /\ IsTimeoutException(Get(outcome[p]).exc)) =>
              /\ ret[p] # None
              /\ Contains(Get(Get(ret[p]).erreur), <<"T", "i", "m", "e", "o", "u", "t">>)

C9_NoResend ==
    \A p \in Procs :
        wire[p] # <<>> =>
            \/ wire'[p] = wire[p]
            \/ pc[p] = "done" /\ wire'[p] = <<>>

\* C9: a lookup sends its one search request and nothing else; once sent,
\* nothing more is sent until the lookup has answered, and a failed attempt
\* (exception, status other than 200, rejected body, no container) ends in
\* an error record; a timeout ends in a record whose error contains
\* "Timeout".
C9_SingleAttempt == []C9_OneRequest /\ [][C9_NoResend]_vars

\* C9 witness: a read timeout ended in a returned "Timeout" record after
\* one request
C9_Witness ==
    /\ LookupDone("c1")
    /\ Get(outcome["c1"]).exc.cls = "ReadTimeout"
    /\ Len(wire["c1"]) = 1
    /\ ret["c1"] = Some(ProduitResponse(req["c1"].reference, AMI3F, None, None,
                                        None, Some(TIMEOUT_AMI3F)))

\* C10: two lookups that have ended with the same adapter, the same
\* reference and the same outcome of their request hold the same record,
\* whatever the other client did meanwhile.
C10_SameInputsSameRecord ==
    \A p, q \in Procs :
        (/\ LookupDone(p) /\ LookupDone(q)
         /\ called[p] = called[q]
         /\ req[p].reference = req[q].reference
         /\ outcome[p] = outcome[q]) => ret[p] = ret[q]

\* C10 witness: the two clients ended the same lookup of the same page with
\* the same success record
C10_Witness ==
    /\ LookupDone("c1") /\ LookupDone("c2")
    /\ called["c1"] = called["c2"]
    /\ req["c1"].reference = req["c2"].reference
    /\ outcome["c1"] = outcome["c2"]
    /\ ret["c1"] # None
    /\ ret["c1"] = ret["c2"]
    /\ SuccessShape(Get(ret["c1"]))

====
